---- MODULE Spec2Model ----
(***************************************************************************)
(* Model of dpsutil/media/image.py: the geometric helpers (crop,           *)
(* crop_center, resize, zoom, rotate_crop) as operators applied to bounded *)
(* inputs, and imwrite/imencode as a step-by-step process over a small     *)
(* file system.                                                            *)
(*                                                                         *)
(* Conventions.  Python's None is the empty tuple <<>>.  An image is known *)
(* by its shape <<height, width>> (img.shape[:2]).  Numbers that the code  *)
(* rounds (a crop box may hold floats) are carried in half units: the      *)
(* model value n stands for n/2.  Quotients that the code truncates with   *)
(* int() are carried as exact fractions <<num, den>>; the code's binary    *)
(* floating point is not modelled.                                         *)
(***************************************************************************)
EXTENDS Integers, Sequences, FiniteSets, TLC

\* Largest image height and width of the geometric inputs.
MaxDim == 4

None == <<>>

Min(a, b) == IF a <= b THEN a ELSE b
Max(a, b) == IF a >= b THEN a ELSE b

(***************************************************************************)
(* Python and numpy primitives                                             *)
(***************************************************************************)

\* int(round(v)) for v = n/2: Python 3 rounds halves to the even neighbour.
RoundHalf(n) ==
    LET k == n \div 2
    IN  IF n % 2 = 0 THEN k
        ELSE IF k % 2 = 0 THEN k ELSE k + 1

\* One bound of a slice a:b over an axis of length n: a negative index counts
\* from the end, and the result is clipped to 0..n.
SliceIndex(i, n) == IF i < 0 THEN Max(i + n, 0) ELSE Min(i, n)

\* Number of elements img[a:b] selects on an axis of length n.
SliceLen(a, b, n) == Max(SliceIndex(b, n) - SliceIndex(a, n), 0)

\* int(v) for the fraction v = q[1]/q[2], q[2] > 0: truncation towards zero.
IntOf(q) == IF q[1] >= 0 THEN q[1] \div q[2] ELSE -((-q[1]) \div q[2])

\* Python truthiness of an optional number: None and 0 are false.
Falsy(v) == v = None \/ v[1] = 0

(***************************************************************************)
(* Results of a call.  kind is "input" (the argument itself is returned),  *)
(* "slice" (a view img[top:bottom, left:right]), "backend" (the array the  *)
(* backend returns for the canvas dsize = <<width, height>>), or the name  *)
(* of the exception raised.  shape is the <<rows, cols>> of the returned   *)
(* buffer, None when nothing is returned.                                  *)
(***************************************************************************)
Returned(kind, shape, bounds, dsize) ==
    [kind |-> kind, shape |-> shape, bounds |-> bounds, dsize |-> dsize]

Raised(name) == Returned(name, None, None, None)

\* crop(img, box): box = <<x, y, w, h>> in half units.
crop(shape, box) ==
    IF \A i \in 1..4 : box[i] = 0
    THEN Returned("input", shape, None, None)
    ELSE LET max_height == shape[1]
             max_width  == shape[2]
             x == RoundHalf(Max(box[1], 0))
             y == RoundHalf(Max(box[2], 0))
             w == x + RoundHalf(Min(box[3], 2 * max_width))
             h == y + RoundHalf(Min(box[4], 2 * max_width))
         IN  Returned("slice",
                      <<SliceLen(y, h, max_height), SliceLen(x, w, max_width)>>,
                      [top |-> y, bottom |-> h, left |-> x, right |-> w],
                      None)

\* crop_center(img, crop_size): crop_size = <<width_crop, height_crop>>.
crop_center(shape, crop_size) ==
    LET height == shape[1]
        width  == shape[2]
        width_crop  == crop_size[1]
        height_crop == crop_size[2]
    IN  IF width_crop >= width \/ height_crop >= height
        THEN Raised("ValueError")
        ELSE LET x == RoundHalf(width - width_crop)
                 y == RoundHalf(height - height_crop)
             IN  crop(shape, <<2 * x, 2 * y, 2 * width_crop, 2 * height_crop>>)

\* cv2.resize(img, dsize): fails on an empty or negative canvas.
cv2_resize(dsize) ==
    IF dsize[1] <= 0 \/ dsize[2] <= 0
    THEN Raised("cv2.error")
    ELSE Returned("backend", <<dsize[2], dsize[1]>>, None, dsize)

\* resize(img, width, height): width and height are None or <<n>>.
resize(shape, width, height) ==
    LET old_h == shape[1]
        old_w == shape[2]
        Ok(v) == Falsy(v) \/ v[1] > 0
    IN  IF (width = None /\ height = None) \/ ~(Ok(width) \/ Ok(height))
        THEN Returned("input", shape, None, None)
        ELSE IF (Falsy(width) \/ width[1] <= 0) /\ height = None
        THEN Raised("TypeError")
        ELSE LET w == IF Falsy(width) \/ width[1] <= 0
                      THEN <<height[1] * old_w, old_h>>
                      ELSE <<width[1], 1>>
                 h == IF Falsy(height) \/ height[1] <= 0
                      THEN <<w[1] * old_h, w[2] * old_w>>
                      ELSE <<height[1], 1>>
             IN  cv2_resize(<<IntOf(w), IntOf(h)>>)

\* Mutant of CenterAccepted: each coordinate checked against the other axis.
CenterAccepted_Swapped(shape, center) ==
    /\ 0 <= center[1] /\ center[1] <= shape[1]
    /\ 0 <= center[2] /\ center[2] <= shape[2]

\* The assertions zoom and rotate_crop make on a supplied center.
CenterAccepted(shape, center) ==
    /\ 0 <= center[1] /\ center[1] <= shape[2]
    /\ 0 <= center[2] /\ center[2] <= shape[1]

\* cv2.warpAffine(img, M, dsize): the canvas is dsize = <<width, height>>.
cv2_warpAffine(dsize) == Returned("backend", <<dsize[2], dsize[1]>>, None, dsize)

\* zoom(img, zoom_level, center): center is None or <<cx, cy>>.
zoom(shape, zoom_level, center) ==
    LET h == shape[1]
        w == shape[2]
    IN  IF zoom_level = 1
        THEN Returned("input", shape, None, None)
        ELSE IF center # None /\ ~CenterAccepted(shape, center)
        THEN Raised("AssertionError")
        ELSE cv2_warpAffine(<<w, h>>)

\* rotate_crop(img, angle, center): the angle only enters the matrix.
rotate_crop(shape, angle, center) ==
    LET h == shape[1]
        w == shape[2]
    IN  IF center # None /\ ~CenterAccepted(shape, center)
        THEN Raised("AssertionError")
        ELSE cv2_warpAffine(<<h, w>>)


(***************************************************************************)
(* imencode / imwrite                                                      *)
(***************************************************************************)

\* Largest pixel count of an image handed to imwrite; 0 is the empty array,
\* which both backends refuse to encode.
MaxImg == 2

\* The format constants imported from .constant, and a value that is neither.
ENCODE_JPEG == ".jpg"
ENCODE_PNG  == ".png"
EncodeTypes == {ENCODE_JPEG, ENCODE_PNG, ".bmp"}

\* Path strings, character by character.
Dot == "."
Jpg == <<"j", "p", "g">>
Png == <<"p", "n", "g">>

\* img_path.split(".")[-1]: the characters after the last dot.
LastComponent(s) ==
    LET dots == {i \in 1..Len(s) : s[i] = Dot}
        last == IF dots = {} THEN 0 ELSE CHOOSE i \in dots : \A j \in dots : j <= i
    IN  SubSeq(s, last + 1, Len(s))

\* The codec imencode dispatches to: the JPEG backend for ENCODE_JPEG only.
Codec(encode_type) == IF encode_type = ENCODE_JPEG THEN "JPEG" ELSE "PNG"

\* The PNG compression level imencode derives from quality.
PngLevel(quality) == Max(0, Min(IntOf(<<quality, 10>>) - 1, 9))

\* The bytes imencode returns for a non-empty image of n pixels: the codec's
\* first signature byte, the codec's setting, and a payload that depends on
\* the image.
imencode(img, encode_type, quality) ==
    IF Codec(encode_type) = "JPEG"
    THEN <<255, quality>> \o [i \in 1..img |-> img]
    ELSE <<137, PngLevel(quality)>> \o [i \in 1..img |-> img]

\* The backends raise on an empty image.
BackendRefuses(img) == img = 0

\* The extension imwrite picks for the file name.
Ext(encode_type) == IF encode_type = ENCODE_PNG THEN Png ELSE Jpg

\* The file name imwrite opens for a path string.
TargetPath(path, encode_type) ==
    LET ext == Ext(encode_type)
    IN  IF ext # LastComponent(path)
        THEN path \o <<Dot>> \o ext
        ELSE path

\* Mutant of Refuses: the over_write flag read the wrong way round.
Refuses_Inverted(isfile, over_write) == isfile /\ over_write

\* The test that makes imwrite refuse an existing target.
Refuses(isfile, over_write) == isfile /\ ~over_write

\* What a file holds after `data` is written at offset pos.
Overlay(old, pos, data) ==
    [i \in 1..Max(Len(old), pos + Len(data)) |->
        IF i > pos /\ i <= pos + Len(data) THEN data[i - pos]
        ELSE IF i <= Len(old) THEN old[i] ELSE 0]

PathA    == <<"a">>
PathAJpg == <<"a", ".", "j", "p", "g">>
PathAPng == <<"a", ".", "p", "n", "g">>
PathJpg  == <<"j", "p", "g">>
\* The file behind a stream the caller opened itself.
PathStream == <<"s">>

PathStrings == {PathA, PathAJpg, PathAPng, PathJpg}
Files == PathStrings \cup {PathStream}
            \cup {TargetPath(p, e) : p \in PathStrings, e \in EncodeTypes}

Missing == [exists |-> FALSE, data |-> <<>>]
File(data) == [exists |-> TRUE, data |-> data]
OldData == <<7, 7, 7, 7, 7>>

NoHandle == [state |-> "none", file |-> <<>>, pos |-> 0, pending |-> <<>>]
OpenHandle(f) == [state |-> "open", file |-> f, pos |-> 0, pending |-> <<>>]

Procs == {"t1", "t2"}

VARIABLES
    img_shape,  \* geometry: img.shape[:2] of the argument
    called,     \* geometry: the function applied, "none" before the call
    args,       \* geometry: its other arguments
    result,     \* geometry: what the call returned or raised
    fs,         \* the file system: file name -> [exists, data]
    fs0,        \* the file system when the calls started
    call,       \* per imwrite call: its arguments, None when there is no call
    pc,         \* per call: the statement it is about to run
    img_path,   \* per call: the local img_path once it names the target
    handle,     \* per call: the stream it writes to
    buffer,     \* per call: the bytes imencode returned
    exc         \* per call: the exception in flight or raised, "none" if none

gvars == <<img_shape, called, args, result>>
wvars == <<fs, fs0, call, pc, img_path, handle, buffer, exc>>
vars  == <<img_shape, called, args, result,
           fs, fs0, call, pc, img_path, handle, buffer, exc>>


(***************************************************************************)
(* Geometry: one call of one function on bounded inputs                    *)
(***************************************************************************)
Shapes     == (1..MaxDim) \X (1..MaxDim)
\* Box entries in half units: corners from -1 to 1.5, extents from -1 to
\* just past the largest image.
BoxCorners == (-2)..3
BoxExtents == (-2)..(2 * MaxDim + 1)
Sizes      == 0..(MaxDim + 1)
Dims       == {None} \cup {<<n>> : n \in (-1)..(MaxDim + 1)}
Centers    == {None} \cup (((-1)..(MaxDim + 1)) \X ((-1)..(MaxDim + 1)))
ZoomLevels == {1, 2, 3}
Angles     == {0, 45, 90}

\* No imwrite call exists in the geometric specification.
NoWrite ==
    /\ fs = None /\ fs0 = None /\ call = None /\ pc = None
    /\ img_path = None /\ handle = None /\ buffer = None /\ exc = None

InitGeom ==
    /\ img_shape \in Shapes
    /\ called = "none"
    /\ args = None
    /\ result = None
    /\ NoWrite

CallCrop ==
    /\ called = "none"
    /\ \E box \in BoxCorners \X BoxCorners \X BoxExtents \X BoxExtents :
        /\ args' = [box |-> box]
        /\ result' = crop(img_shape, box)
    /\ called' = "crop"
    /\ UNCHANGED <<img_shape, wvars>>

CallCropCenter ==
    /\ called = "none"
    /\ \E crop_size \in Sizes \X Sizes :
        /\ args' = [crop_size |-> crop_size]
        /\ result' = crop_center(img_shape, crop_size)
    /\ called' = "crop_center"
    /\ UNCHANGED <<img_shape, wvars>>

CallResize ==
    /\ called = "none"
    /\ \E width \in Dims, height \in Dims :
        /\ args' = [width |-> width, height |-> height]
        /\ result' = resize(img_shape, width, height)
    /\ called' = "resize"
    /\ UNCHANGED <<img_shape, wvars>>

CallZoom ==
    /\ called = "none"
    /\ \E zoom_level \in ZoomLevels, center \in Centers :
        /\ args' = [zoom_level |-> zoom_level, center |-> center]
        /\ result' = zoom(img_shape, zoom_level, center)
    /\ called' = "zoom"
    /\ UNCHANGED <<img_shape, wvars>>

CallRotateCrop ==
    /\ called = "none"
    /\ \E angle \in Angles, center \in Centers :
        /\ args' = [angle |-> angle, center |-> center]
        /\ result' = rotate_crop(img_shape, angle, center)
    /\ called' = "rotate_crop"
    /\ UNCHANGED <<img_shape, wvars>>

NextGeom ==
    \/ CallCrop
    \/ CallCropCenter
    \/ CallResize
    \/ CallZoom
    \/ CallRotateCrop

SpecGeom == InitGeom /\ [][NextGeom]_vars


(***************************************************************************)
(* Claims about the geometric helpers (checked under SpecGeom)             *)
(***************************************************************************)

\* C4: for every box that is not all zeros, the slice bounds crop uses satisfy
\* 0 <= left <= right <= W and 0 <= top <= bottom <= H.  Stated for the boxes
\* whose width and height are not negative, where the claim is least in doubt.
C4_CropBoundsInsideSource ==
    (/\ called = "crop" /\ result.kind = "slice"
     /\ args.box[3] >= 0 /\ args.box[4] >= 0) =>
        LET b == result.bounds
        IN  /\ 0 <= b.left /\ b.left <= b.right /\ b.right <= img_shape[2]
            /\ 0 <= b.top /\ b.top <= b.bottom /\ b.bottom <= img_shape[1]

\* C5: crop_center raises ValueError exactly when cw >= W or ch >= H, and
\* otherwise returns a buffer of exactly ch rows by cw columns.  Stated for
\* crop sizes of at least 1 by 1.
C5_CropCenterShape ==
    (called = "crop_center" /\ args.crop_size[1] >= 1 /\ args.crop_size[2] >= 1) =>
        LET cw == args.crop_size[1]
            ch == args.crop_size[2]
            tooBig == cw >= img_shape[2] \/ ch >= img_shape[1]
        IN  /\ (result.kind = "ValueError") <=> tooBig
            /\ ~tooBig => result.shape = <<ch, cw>>

Positive(v) == v # None /\ v[1] > 0

\* C6: a zero or negative dimension counts as absent: with no positive
\* dimension resize returns its input, with one the other follows the source
\* aspect ratio, with two the backend is asked for exactly those dimensions.
C6_ResizeNonPositiveIsAbsent ==
    called = "resize" =>
        LET width  == args.width
            height == args.height
            H == img_shape[1]
            W == img_shape[2]
        IN  /\ (~Positive(width) /\ ~Positive(height)) =>
                    (result.kind = "input" /\ result.shape = img_shape)
            /\ (Positive(width) /\ ~Positive(height)) =>
                    result = cv2_resize(<<width[1], (width[1] * H) \div W>>)
            /\ (~Positive(width) /\ Positive(height)) =>
                    result = cv2_resize(<<(height[1] * W) \div H, height[1]>>)
            /\ (Positive(width) /\ Positive(height)) =>
                    (result.kind = "backend" /\ result.dsize = <<width[1], height[1]>>)

\* A center <<cx, cy>> inside the buffer bounds: 0 <= cx <= W and 0 <= cy <= H.
InBounds(center) ==
    /\ center[1] \in 0..img_shape[2]
    /\ center[2] \in 0..img_shape[1]

\* C7 as claimed: for every zoom level and angle, a supplied center outside
\* the bounds makes zoom and rotate_crop fail with the bounds-validation
\* error and return no buffer; a center inside the bounds does not.
C7_CenterValidatedAtEveryLevel ==
    (called \in {"zoom", "rotate_crop"} /\ args.center # None) =>
        /\ ~InBounds(args.center) =>
                (result.kind = "AssertionError" /\ result.shape = None)
        /\ InBounds(args.center) => result.kind # "AssertionError"

\* C7 amended: the same for rotate_crop at every angle and for zoom at every
\* zoom level other than 1; at zoom level 1 zoom returns its input whatever
\* the center.
C7_CenterValidatedUnlessIdentityZoom ==
    /\ (/\ called \in {"zoom", "rotate_crop"}
        /\ args.center # None
        /\ (called = "zoom" => args.zoom_level # 1)) =>
            /\ ~InBounds(args.center) =>
                    (result.kind = "AssertionError" /\ result.shape = None)
            /\ InBounds(args.center) => result.kind # "AssertionError"
    /\ (called = "zoom" /\ args.zoom_level = 1) =>
            (result.kind = "input" /\ result.shape = img_shape)

\* C7 witness: zoom at level 2 refused a center one column to the right of
\* the image.
C7_Witness ==
    /\ called = "zoom"
    /\ args.zoom_level = 2
    /\ args.center = <<img_shape[2] + 1, 0>>
    /\ result.kind = "AssertionError"

\* C8: rotate_crop asks the backend for a canvas of width W and height H, so
\* the returned buffer has H rows and W columns.
C8_RotateCropKeepsCanvas ==
    (called = "rotate_crop" /\ result.kind = "backend") =>
        /\ result.dsize = <<img_shape[2], img_shape[1]>>
        /\ result.shape = img_shape


(***************************************************************************)
(* imwrite: one call per process, one action per statement                 *)
(***************************************************************************)
Qualities == {5, 95}

\* The arguments of a call.  kind is the type of img_path: a path string, an
\* open io.BufferedWriter, or anything else.
PathCalls ==
    [kind : {"str"}, path : PathStrings, encode_type : EncodeTypes,
     quality : Qualities, over_write : BOOLEAN, img : 0..MaxImg]
OtherCalls ==
    [kind : {"stream", "other"}, path : {None}, encode_type : EncodeTypes,
     quality : Qualities, over_write : {FALSE}, img : 0..MaxImg]

\* The files that may exist before the calls start.
Preexisting == {PathA, PathAJpg, PathAPng}

NoGeom ==
    /\ img_shape = None /\ called = "none" /\ args = None /\ result = None

\* The state in which the calls of c start: c maps each process to its
\* arguments, or to None when the process makes no call.
InitWrite(c) ==
    /\ call = c
    /\ \E there \in SUBSET Preexisting :
        fs = [f \in Files |->
                IF f \in there THEN File(OldData)
                ELSE IF f = PathStream /\ \E p \in Procs :
                            c[p] # None /\ c[p].kind = "stream"
                THEN File(<<>>)
                ELSE Missing]
    /\ fs0 = fs
    /\ pc = [p \in Procs |-> IF c[p] = None THEN "idle" ELSE "enter"]
    /\ img_path = [p \in Procs |-> IF c[p] = None THEN None ELSE c[p].path]
    /\ handle = [p \in Procs |->
                    IF c[p] # None /\ c[p].kind = "stream"
                    THEN OpenHandle(PathStream) ELSE NoHandle]
    /\ buffer = [p \in Procs |-> None]
    /\ exc = [p \in Procs |-> "none"]
    /\ NoGeom

\* A call raises e and is over.
Raise(p, e) ==
    /\ exc' = [exc EXCEPT ![p] = e]
    /\ pc' = [pc EXCEPT ![p] = "raised"]

\* Lines 156-165: the type assertion, and for a path string the extension.
Enter(p) ==
    /\ pc[p] = "enter"
    /\ \/ /\ call[p].kind = "other"
          /\ Raise(p, "AssertionError")
          /\ UNCHANGED img_path
       \/ /\ call[p].kind = "str"
          /\ img_path' = [img_path EXCEPT
                            ![p] = TargetPath(call[p].path, call[p].encode_type)]
          /\ pc' = [pc EXCEPT ![p] = "check"]
          /\ UNCHANGED exc
       \/ /\ call[p].kind = "stream"
          /\ pc' = [pc EXCEPT ![p] = "encode"]
          /\ UNCHANGED <<img_path, exc>>
    /\ UNCHANGED <<fs, fs0, call, handle, buffer, gvars>>

\* Lines 167-168: os.path.isfile(img_path) and not over_write.
Check(p) ==
    /\ pc[p] = "check"
    /\ IF Refuses(fs[img_path[p]].exists, call[p].over_write)
       THEN Raise(p, "FileExistsError")
       ELSE pc' = [pc EXCEPT ![p] = "open"] /\ UNCHANGED exc
    /\ UNCHANGED <<fs, fs0, call, img_path, handle, buffer, gvars>>

\* Mutant of Open: the file is opened for appending, which creates it when
\* missing and keeps its bytes when present.
Open_Append(p) ==
    /\ pc[p] = "open"
    /\ \/ /\ fs' = [fs EXCEPT ![img_path[p]] = File(@.data)]
          /\ handle' = [handle EXCEPT ![p] =
                [OpenHandle(img_path[p]) EXCEPT !.pos = Len(fs[img_path[p]].data)]]
          /\ pc' = [pc EXCEPT ![p] = "encode"]
          /\ UNCHANGED exc
       \/ /\ Raise(p, "OSError")
          /\ UNCHANGED <<fs, handle>>
    /\ UNCHANGED <<fs0, call, img_path, buffer, gvars>>

\* Line 170: open(img_path, 'wb') creates or truncates the file; the
\* operating system may refuse.
Open(p) ==
    /\ pc[p] = "open"
    /\ \/ /\ fs' = [fs EXCEPT ![img_path[p]] = File(<<>>)]
          /\ handle' = [handle EXCEPT ![p] = OpenHandle(img_path[p])]
          /\ pc' = [pc EXCEPT ![p] = "encode"]
          /\ UNCHANGED exc
       \/ /\ Raise(p, "OSError")
          /\ UNCHANGED <<fs, handle>>
    /\ UNCHANGED <<fs0, call, img_path, buffer, gvars>>

\* Line 173, inside the with block: imencode returns the bytes or raises.
Encode(p) ==
    /\ pc[p] = "encode"
    /\ IF BackendRefuses(call[p].img)
       THEN /\ exc' = [exc EXCEPT ![p] = "EncodeError"]
            /\ pc' = [pc EXCEPT ![p] = "close"]
            /\ UNCHANGED buffer
       ELSE /\ buffer' = [buffer EXCEPT ![p] =
                    imencode(call[p].img, call[p].encode_type, call[p].quality)]
            /\ pc' = [pc EXCEPT ![p] = "write"]
            /\ UNCHANGED exc
    /\ UNCHANGED <<fs, fs0, call, img_path, handle, gvars>>

\* The file system after the bytes a handle holds back reach its file.
Flushed(h) ==
    IF h.pending = <<>> THEN fs
    ELSE [fs EXCEPT ![h.file] = File(Overlay(fs[h.file].data, h.pos, h.pending))]

\* Line 174: img_path.write(buffer).  A BufferedWriter passes the bytes on
\* at once or keeps them until it is flushed; the write may fail.
Write(p) ==
    /\ pc[p] = "write"
    /\ \/ \E through \in BOOLEAN :
            LET h == [handle[p] EXCEPT !.pending = buffer[p]]
            IN  /\ fs' = IF through THEN Flushed(h) ELSE fs
                /\ handle' = [handle EXCEPT ![p] =
                                IF through
                                THEN [h EXCEPT !.pending = <<>>,
                                               !.pos = h.pos + Len(buffer[p])]
                                ELSE h]
                /\ UNCHANGED exc
       \/ /\ exc' = [exc EXCEPT ![p] = "OSError"]
          /\ UNCHANGED <<fs, handle>>
    /\ pc' = [pc EXCEPT ![p] = "close"]
    /\ UNCHANGED <<fs0, call, img_path, buffer, gvars>>

\* Mutant of Close: no with block, so an exception in flight skips the close.
Close_NoWith(p) ==
    /\ pc[p] = "close"
    /\ IF exc[p] = "none"
       THEN /\ fs' = Flushed(handle[p])
            /\ handle' = [handle EXCEPT ![p] =
                            [@ EXCEPT !.state = "closed", !.pending = <<>>,
                                      !.pos = @ + Len(handle[p].pending)]]
       ELSE UNCHANGED <<fs, handle>>
    /\ pc' = [pc EXCEPT ![p] = IF exc[p] = "none" THEN "done" ELSE "raised"]
    /\ UNCHANGED <<fs0, call, img_path, buffer, exc, gvars>>

\* Line 172, the exit of the with block: the stream is flushed and closed,
\* and the exception in flight, if any, goes on to the caller.
Close(p) ==
    /\ pc[p] = "close"
    /\ fs' = Flushed(handle[p])
    /\ handle' = [handle EXCEPT ![p] =
                    [@ EXCEPT !.state = "closed", !.pending = <<>>,
                              !.pos = @ + Len(handle[p].pending)]]
    /\ pc' = [pc EXCEPT ![p] = IF exc[p] = "none" THEN "done" ELSE "raised"]
    /\ UNCHANGED <<fs0, call, img_path, buffer, exc, gvars>>

Next ==
    \E p \in Procs :
        \/ Enter(p)
        \/ Check(p)
        \/ Open(p)
        \/ Encode(p)
        \/ Write(p)
        \/ Close(p)

\* One imwrite call at a time: process t1 calls, t2 does not.
Init ==
    \E c \in PathCalls \cup OtherCalls :
        InitWrite([p \in Procs |-> IF p = "t1" THEN c ELSE None])

Spec == Init /\ [][Next]_vars

\* Two imwrite calls on path strings run concurrently: JPEG or PNG, with the
\* default quality, to "a" or "a.jpg".
ConcCalls ==
    {k \in PathCalls : /\ k.quality = 95
                       /\ k.encode_type \in {ENCODE_JPEG, ENCODE_PNG}
                       /\ k.path \in {PathA, PathAJpg}}

InitConc == \E c \in [Procs -> ConcCalls] : InitWrite(c)

SpecConc == InitConc /\ [][Next]_vars


(***************************************************************************)
(* Claims about imwrite, one call at a time (checked under Spec)           *)
(***************************************************************************)
Over(p) == pc[p] \in {"done", "raised"}

\* C1 as claimed: a call given a path string that names an existing file,
\* with over_write false, raises FileExistsError and leaves that file's bytes
\* as they were.  Stated for the calls in which neither the backend nor the
\* operating system fails.
C1_ExistingGivenPathRefused ==
    \A p \in Procs :
        (/\ call[p] # None /\ call[p].kind = "str"
         /\ fs0[call[p].path].exists /\ ~call[p].over_write
         /\ Over(p) /\ exc[p] \notin {"OSError", "EncodeError"}) =>
            /\ exc[p] = "FileExistsError"
            /\ fs[call[p].path] = fs0[call[p].path]

\* C1 amended: a call given a path string whose target (the path with the
\* format's extension appended unless it already ends with it) names an
\* existing file, with over_write false, raises FileExistsError and leaves
\* every file's bytes as they were.
C1_ExistingTargetRefused ==
    \A p \in Procs :
        (/\ call[p] # None /\ call[p].kind = "str"
         /\ pc[p] \notin {"enter", "check"}
         /\ fs0[img_path[p]].exists /\ ~call[p].over_write) =>
            /\ pc[p] = "raised"
            /\ exc[p] = "FileExistsError"
            /\ fs = fs0

\* C1 witness: "a.jpg" exists, imwrite("a", JPEG) without over_write was
\* refused and "a.jpg" still holds its old bytes.
C1_Witness ==
    /\ call["t1"].kind = "str"
    /\ call["t1"].path = PathA
    /\ call["t1"].encode_type = ENCODE_JPEG
    /\ ~call["t1"].over_write
    /\ pc["t1"] = "raised"
    /\ exc["t1"] = "FileExistsError"
    /\ fs[PathAJpg] = File(OldData)

\* C2: when an imwrite call is over, the stream it opened or was handed is
\* not open.
C2_HandleClosedOnEveryExit ==
    \A p \in Procs : Over(p) => handle[p].state # "open"

\* C2 witness: a path-based call whose imencode raised is over and the file
\* it had opened is closed.
C2_Witness ==
    /\ call["t1"].kind = "str"
    /\ pc["t1"] = "raised"
    /\ exc["t1"] = "EncodeError"
    /\ handle["t1"].state = "closed"

\* Whether the path s ends with a dot followed by ext.
EndsWithExt(s, ext) ==
    /\ Len(s) >= Len(ext) + 1
    /\ SubSeq(s, Len(s) - Len(ext), Len(s)) = <<Dot>> \o ext

\* C3: the file imwrite opens for a path string ends in ".jpg" exactly when
\* imencode uses the JPEG backend for the call's format value, and in ".png"
\* exactly when it uses the PNG path.  Stated for the given paths other than
\* the bare word "jpg".
C3_ExtensionMatchesCodec ==
    \A p \in Procs :
        (/\ call[p] # None /\ call[p].kind = "str" /\ call[p].path # PathJpg
         /\ handle[p].state # "none") =>
            /\ EndsWithExt(handle[p].file, Jpg) <=> Codec(call[p].encode_type) = "JPEG"
            /\ EndsWithExt(handle[p].file, Png) <=> Codec(call[p].encode_type) = "PNG"

\* C9 as claimed: when a path-based call failed because imencode raised, the
\* file system is as it was before the call.
C9_EncodeFailureLeavesFilesAlone ==
    \A p \in Procs :
        (/\ call[p] # None /\ call[p].kind = "str"
         /\ pc[p] = "raised" /\ exc[p] = "EncodeError") =>
            fs = fs0

\* C9 amended: when a path-based call failed because imencode raised, the
\* target exists and is empty (the open before the encoding created or
\* truncated it), its handle is closed, and every other file is as it was
\* before the call.
C9_EncodeFailureLeavesEmptyTarget ==
    \A p \in Procs :
        (/\ call[p] # None /\ call[p].kind = "str"
         /\ pc[p] = "raised" /\ exc[p] = "EncodeError") =>
            /\ fs[img_path[p]] = File(<<>>)
            /\ handle[p].state = "closed"
            /\ \A f \in Files \ {img_path[p]} : fs[f] = fs0[f]

\* C9 witness: imwrite("a.jpg", JPEG, over_write=True) on an existing
\* "a.jpg" failed in imencode and "a.jpg" has lost its bytes.
C9_Witness ==
    /\ call["t1"].kind = "str"
    /\ call["t1"].path = PathAJpg
    /\ call["t1"].encode_type = ENCODE_JPEG
    /\ call["t1"].over_write
    /\ fs0[PathAJpg] = File(OldData)
    /\ pc["t1"] = "raised"
    /\ exc["t1"] = "EncodeError"
    /\ fs[PathAJpg] = File(<<>>)

(***************************************************************************)
(* Claim about concurrent imwrite calls (checked under SpecConc)           *)
(***************************************************************************)

\* C10: two calls with over_write false, each on its own image, on the same
\* target, which does not exist at the start, and with nothing failing in
\* the backend or the operating system: once both are over, at most one is
\* done, the other raised FileExistsError, and the target holds exactly the
\* bytes the successful call encoded.
C10_OneWriterWins ==
    (/\ \A p \in Procs : call[p] # None /\ call[p].kind = "str" /\ ~call[p].over_write
     /\ call["t1"].img # call["t2"].img
     /\ \A p \in Procs : Over(p) /\ exc[p] \in {"none", "FileExistsError"}
     /\ img_path["t1"] = img_path["t2"]
     /\ ~fs0[img_path["t1"]].exists) =>
        /\ ~(pc["t1"] = "done" /\ pc["t2"] = "done")
        /\ \A p \in Procs : pc[p] = "done" =>
                /\ \A q \in Procs \ {p} : exc[q] = "FileExistsError"
                /\ fs[img_path[p]] = File(buffer[p])

====
